---- MODULE Spec2Model ----
(***************************************************************************)
(* Model of the claude-code-mcp session engine (src/src/sessions.rs), of   *)
(* the storage it scans and of the JSON-RPC server loop (src/src/main.rs)  *)
(* that dispatches to it.  Strings are sequences of Unicode code points    *)
(* (Latin-1 range), so that character counts, UTF-8 byte lengths and       *)
(* lexical order are computed as the Rust code computes them.              *)
(***************************************************************************)
EXTENDS Integers, Sequences, FiniteSets, TLC

\* root:  the state of ~/.claude ("missing", "no_projects" or "ok")
\* files: the directory entries under ~/.claude/projects, in walk order
\* last:  the tool call being answered: the operation, its arguments and
\*        what it returned; NoCall while the server waits for a request
\* stdin:   the lines the client sends, in order
\* line_no: the number of lines of stdin the server has read
\* stdout:  the response lines the server has written, in order
VARIABLES root, files, last, stdin, line_no, stdout

vars == <<root, files, last, stdin, line_no, stdout>>

(***************************************************************************)
(* Option and Result values                                                *)
(***************************************************************************)
None == [some |-> FALSE]

Some(x) == [some |-> TRUE, v |-> x]

Ok(x) == [ok |-> TRUE, v |-> x]

Err(e) == [ok |-> FALSE, e |-> e]

Min(a, b) == IF a <= b THEN a ELSE b

SetMin(S) == CHOOSE m \in S : \A o \in S : m <= o

SetMax(S) == CHOOSE m \in S : \A o \in S : m >= o

\* the sequence s as an explicit tuple, so that its elements are computed once
Eager(s) == SubSeq(s, 1, Len(s))

(***************************************************************************)
(* Characters and strings (std::str / char)                                *)
(***************************************************************************)
\* char::is_whitespace: tab, LF, VT, FF, CR, space, NEL, NBSP
is_whitespace(c) == c \in {9, 10, 11, 12, 13, 32, 133, 160}

\* char::is_alphanumeric on the Latin-1 range
is_alphanumeric(c) ==
    \/ c \in 48..57
    \/ c \in 65..90
    \/ c \in 97..122
    \/ c \in {170, 178, 179, 181, 185, 186, 188, 189, 190}
    \/ (c \in 192..255 /\ c \notin {215, 247})

\* char::to_lowercase on the Latin-1 range
to_lowercase_char(c) ==
    IF c \in 65..90 \/ (c \in 192..222 /\ c # 215) THEN c + 32 ELSE c

to_lowercase(s) == Eager([i \in 1..Len(s) |-> to_lowercase_char(s[i])])

\* str::len: the length in BYTES of the UTF-8 encoding
str_len(s) ==
    LET two == {i \in 1..Len(s) : s[i] >= 128}
        three == {i \in two : s[i] >= 2048}
        four == {i \in three : s[i] >= 65536}
    IN  Len(s) + Cardinality(two) + Cardinality(three) + Cardinality(four)

\* s.chars().take(n).collect()
chars_take(s, n) == SubSeq(s, 1, Min(n, Len(s)))

\* Ord for str: lexicographic by bytes, which is code point order
str_lt(a, b) ==
    \E k \in 1..(Min(Len(a), Len(b)) + 1) :
        /\ \A j \in 1..(k - 1) : a[j] = b[j]
        /\ \/ (k > Len(a) /\ k <= Len(b))
           \/ (k <= Len(a) /\ k <= Len(b) /\ a[k] < b[k])

starts_with(s, p) == Len(s) >= Len(p) /\ SubSeq(s, 1, Len(p)) = p

ends_with_char(s, c) == Len(s) > 0 /\ s[Len(s)] = c

contains_char(s, c) == \E i \in 1..Len(s) : s[i] = c

\* str::split_whitespace: the maximal runs of non-whitespace, in order
split_whitespace(s) ==
    LET starts == {i \in 1..Len(s) :
                      ~is_whitespace(s[i]) /\ (i = 1 \/ is_whitespace(s[i - 1]))}
        stops == {j \in 1..Len(s) :
                      ~is_whitespace(s[j]) /\ (j = Len(s) \/ is_whitespace(s[j + 1]))}
        runs == {[from |-> i,
                  to |-> SetMin({j \in stops : j >= i}),
                  k |-> Cardinality({j \in starts : j <= i})] : i \in starts}
        nth(k) == CHOOSE r \in runs : r.k = k
    IN  Eager([k \in 1..Cardinality(starts) |-> SubSeq(s, nth(k).from, nth(k).to)])

\* slice::join(sep)
RECURSIVE join(_, _)
join(parts, sep) ==
    IF Len(parts) = 0 THEN <<>>
    ELSE IF Len(parts) = 1 THEN parts[1]
    ELSE parts[1] \o sep \o join(Tail(parts), sep)

\* the string literals of the program
s_user == <<117, 115, 101, 114>>

s_assistant == <<97, 115, 115, 105, 115, 116, 97, 110, 116>>

s_human == <<104, 117, 109, 97, 110>>

s_jsonl == <<106, 115, 111, 110, 108>>

s_agent_prefix == <<97, 103, 101, 110, 116, 45>>

s_projects == <<112, 114, 111, 106, 101, 99, 116, 115>>

s_tool_use == <<116, 111, 111, 108, 95, 117, 115, 101>>

s_ellipsis == <<46, 46, 46>>

\* "No preview available"
s_no_preview ==
    <<78, 111, 32, 112, 114, 101, 118, 105, 101, 119, 32,
      97, 118, 97, 105, 108, 97, 98, 108, 101>>

(***************************************************************************)
(* Instants (chrono::DateTime<Utc>) and their RFC 3339 rendering.          *)
(* An instant is an integer t; its year is t \div 100 and t % 100 stands   *)
(* for the position within the year, rendered as a fixed-width field.      *)
(***************************************************************************)
year_of(t) == t \div 100

digit(n) == 48 + n

\* the decimal digits of n >= 0, zero-padded to at least w digits
pad_digits(n, w) ==
    LET nd == IF n >= 100000 THEN 6 ELSE IF n >= 10000 THEN 5 ELSE IF n >= 1000 THEN 4
              ELSE IF n >= 100 THEN 3 ELSE IF n >= 10 THEN 2 ELSE 1
        width == IF nd > w THEN nd ELSE w
        pow == [e \in 0..6 |-> IF e = 0 THEN 1 ELSE IF e = 1 THEN 10 ELSE IF e = 2 THEN 100
                 ELSE IF e = 3 THEN 1000 ELSE IF e = 4 THEN 10000
                 ELSE IF e = 5 THEN 100000 ELSE 1000000]
    IN  [i \in 1..width |-> digit((n \div pow[width - i]) % 10)]

\* DateTime::to_rfc3339: years 0..=9999 are written as four digits, any
\* other year with an explicit sign ("{:+05}")
to_rfc3339(t) ==
    LET y == year_of(t)
        ys == IF y \in 0..9999 THEN pad_digits(y, 4)
              ELSE IF y < 0 THEN <<45>> \o pad_digits(0 - y, 4)
              ELSE <<43>> \o pad_digits(y, 4)
    IN  ys \o <<45>> \o pad_digits(t % 100, 2) \o <<43, 48, 48, 58, 48, 48>>

\* Ord for Option<String>: None is less than every Some, and strings
\* compare lexically
opt_lt(a, b) ==
    IF ~a.some THEN b.some
    ELSE b.some /\ str_lt(a.v, b.v)

\* slice::sort_by with a comparator: the stable sort.  before[i][j] is
\* "cmp(s[i], s[j]) = Less"; an element precedes another when it compares
\* Less, or when it does not compare Greater and stood before it.
sort_by(s, before) ==
    LET n == Len(s)
        rank == Eager([i \in 1..n |->
                    1 + Cardinality({j \in 1..n :
                            IF j < i THEN ~before[i][j] ELSE before[j][i]})])
        at == [p \in 1..n |-> CHOOSE i \in 1..n : rank[i] = p]
    IN  Eager([p \in 1..n |-> s[at[p]]])

\* Vec::truncate(n) / Iterator::take(n)
truncate(s, n) == SubSeq(s, 1, Min(n, Len(s)))

(***************************************************************************)
(* Paths (std::path::Path).  A path is the sequence of its components.     *)
(***************************************************************************)
\* Path::file_name: the last component
file_name(path) == IF Len(path) = 0 THEN None ELSE Some(path[Len(path)])

\* the position of the dot that splits stem and extension, 0 if there is
\* none (a name without a dot, or whose only dot is the leading one)
split_dot(name) ==
    LET dots == {i \in 2..Len(name) : name[i] = 46}
    IN  IF dots = {} THEN 0 ELSE SetMax(dots)

\* the part of a file name after the dot at position dot, if there is one
extension_at(name, dot) ==
    IF dot = 0 THEN None ELSE Some(SubSeq(name, dot + 1, Len(name)))

\* Path::extension
extension(path) ==
    IF Len(path) = 0 THEN None
    ELSE extension_at(path[Len(path)], split_dot(path[Len(path)]))

\* the part of a file name before the dot at position dot
stem_at(name, dot) == IF dot = 0 THEN name ELSE SubSeq(name, 1, dot - 1)

\* Path::file_stem
file_stem(path) ==
    IF Len(path) = 0 THEN None
    ELSE Some(stem_at(path[Len(path)], split_dot(path[Len(path)])))

\* a replacement of the leading dash only
replace_dash_first(s) == [i \in 1..Len(s) |-> IF i = 1 /\ s[i] = 45 THEN 47 ELSE s[i]]

\* str::replace('-', "/")
replace_dash(s) == [i \in 1..Len(s) |-> IF s[i] = 45 THEN 47 ELSE s[i]]

\* the readable form of a project directory name
project_name(project_hash) ==
    IF starts_with(project_hash, <<45>>) THEN replace_dash(project_hash) ELSE project_hash

extract_project_path(path) ==
    LET hits == {i \in 1..Len(path) : path[i] = s_projects /\ i + 1 <= Len(path)}
    IN  IF hits = {} THEN None ELSE Some(project_name(path[SetMin(hits) + 1]))

\* std's DefaultHasher is represented by a checksum of the path's code points
checksum(flat) ==
    (Len(flat) * 31 + (IF Len(flat) = 0 THEN 0 ELSE flat[1] + flat[Len(flat)])) % 65536

hex_digit(d) == IF d < 10 THEN 48 + d ELSE 87 + d

\* format!("{:016x}", h): sixteen hexadecimal digits
hex16(h) ==
    [i \in 1..16 |->
        IF i <= 12 THEN 48
        ELSE hex_digit((h \div (IF i = 13 THEN 4096 ELSE IF i = 14 THEN 256
                                ELSE IF i = 15 THEN 16 ELSE 1)) % 16)]

\* format!("{:016x}", hasher.finish()) of the hash of the path
uuid_from_path(path) == hex16(checksum(join(path, <<47>>)))

(***************************************************************************)
(* Content Extractor                                                       *)
(***************************************************************************)
is_some(o) == o.some

\* the values of a sequence of present options
unwrap_all(s) == [i \in 1..Len(s) |-> s[i].v]

\* the summary of a tool input with the whole command
input_summary_untruncated(input) ==
    IF input.file_path.some THEN <<32, 111, 110, 32>> \o input.file_path.v
    ELSE IF input.command.some THEN <<58, 32>> \o input.command.v
    ELSE <<>>

\* the summary of a tool input: " on <file_path>", ": <first 50 characters
\* of command>", or nothing
input_summary(input) ==
    IF input.file_path.some THEN <<32, 111, 110, 32>> \o input.file_path.v
    ELSE IF input.command.some THEN <<58, 32>> \o chars_take(input.command.v, 50)
    ELSE <<>>

\* format!("[Tool: {}{}]", name, input_summary) for one tool_use block
tool_line(item) ==
    <<91, 84, 111, 111, 108, 58, 32>> \o item.name.v
        \o (IF item.input.some THEN input_summary(item.input.v) ELSE <<>>) \o <<93>>

\* what one block of an array payload contributes, if anything
block_part(item) ==
    IF item.text.some THEN Some(item.text.v)
    ELSE IF item.type = Some(s_tool_use) /\ item.name.some THEN Some(tool_line(item))
    ELSE None

\* what the blocks of an array payload contribute, block by block
block_parts(items) == [i \in 1..Len(items) |-> block_part(items[i])]

extract_message_content(message) ==
    IF message.content.k = "str" THEN message.content.s
    ELSE IF message.content.k = "arr"
    THEN join(unwrap_all(SelectSeq(block_parts(message.content.items), is_some)), <<10>>)
    ELSE <<>>

(***************************************************************************)
(* Session Parser                                                          *)
(***************************************************************************)
\* s.parse::<DateTime<Utc>>().ok() on the text of a timestamp field
parse_datetime(text) == IF text.valid THEN Some(text.t) ELSE None

base_path == <<<<104, 111, 109, 101>>, <<46, 99, 108, 97, 117, 100, 101>>>>

projects_dir == Append(base_path, s_projects)

\* the absolute path of a directory entry
path_of(f) == projects_dir \o f.rel

\* std::fs::read_to_string: fails when the file cannot be opened or is not
\* valid UTF-8
read_to_string(f) ==
    IF f.read # "ok" THEN Err(f.read)
    ELSE IF \E k \in 1..Len(f.lines) : f.lines[k].kind = "invalid_utf8" THEN Err("InvalidData")
    ELSE Ok(f.lines)

\* path.metadata().ok().and_then(|m| m.modified().ok()).map(DateTime::from)
modified(f) == f.mtime

\* the accumulators of the line loop, before the first line
parse_start ==
    [messages |-> <<>>, session_id |-> None, cwd |-> None,
     first_timestamp |-> None, last_timestamp |-> None]

\* a field that is taken from the last record that has it
last_seen(current, field) == IF field.some THEN field ELSE current

\* a field that is taken from the first record that has it
first_seen(current, field) == IF ~current.some THEN field ELSE current

\* the timestamp of a record, if it has one that is a date
timestamp_of(value) ==
    IF value.timestamp.some THEN parse_datetime(value.timestamp.v) ELSE None

\* the first timestamp seen, whatever comes later
earliest_first(first_timestamp, timestamp) ==
    IF ~first_timestamp.some THEN timestamp ELSE first_timestamp

\* the earliest timestamp so far
earliest(first_timestamp, timestamp) ==
    IF timestamp.some /\ (~first_timestamp.some \/ timestamp.v < first_timestamp.v)
    THEN timestamp ELSE first_timestamp

\* the latest timestamp so far
latest(last_timestamp, timestamp) ==
    IF timestamp.some /\ (~last_timestamp.some \/ timestamp.v > last_timestamp.v)
    THEN timestamp ELSE last_timestamp

\* value.get("type").and_then(|v| v.as_str()).unwrap_or("")
msg_type_of(value) == IF value.type.some THEN value.type.v ELSE <<>>

\* message.get("role").and_then(|v| v.as_str()).unwrap_or(msg_type)
role_of(message, msg_type) == IF message.role.some THEN message.role.v ELSE msg_type

\* push_message keeping a message whose content is empty
push_message_keep_empty(messages, role, content, timestamp) ==
    Append(messages, [role |-> role, content |-> content, timestamp |-> timestamp])

\* the message is kept unless its content is empty
push_message(messages, role, content, timestamp) ==
    IF content # <<>>
    THEN Append(messages, [role |-> role, content |-> content, timestamp |-> timestamp])
    ELSE messages

\* the messages after a record whose type is not looked at
read_message_any_type(messages, value, msg_type, timestamp) ==
    IF ~value.message.some THEN messages
    ELSE push_message(messages, role_of(value.message.v, msg_type),
                      extract_message_content(value.message.v), timestamp)

\* the messages after a record: only "user" and "assistant" records that
\* have a message payload contribute
read_message(messages, value, msg_type, timestamp) ==
    IF msg_type # s_user /\ msg_type # s_assistant THEN messages
    ELSE IF ~value.message.some THEN messages
    ELSE push_message(messages, role_of(value.message.v, msg_type),
                      extract_message_content(value.message.v), timestamp)

\* the accumulators after a record whose timestamp is given
parse_record(st, value, timestamp) ==
    [messages |-> read_message(st.messages, value, msg_type_of(value), timestamp),
     session_id |-> first_seen(st.session_id, value.sessionId),
     cwd |-> first_seen(st.cwd, value.cwd),
     first_timestamp |-> earliest(st.first_timestamp, timestamp),
     last_timestamp |-> latest(st.last_timestamp, timestamp)]

\* one iteration of the line loop on a line that is a structured record
parse_value(st, value) == parse_record(st, value, timestamp_of(value))

\* parse_line giving up what was read when a line is not JSON
parse_line_fatal(st, line) ==
    IF line.kind = "json" THEN parse_value(st, line)
    ELSE IF line.kind = "invalid" THEN parse_start
    ELSE st

\* one iteration of the line loop: blank lines and lines that are not JSON
\* are skipped
parse_line(st, line) == IF line.kind = "json" THEN parse_value(st, line) ELSE st

RECURSIVE parse_lines(_, _)
parse_lines(st, lines) ==
    IF Len(lines) = 0 THEN st
    ELSE parse_lines(parse_line(st, lines[1]), Tail(lines))

\* the id of a session: the first sessionId of its records, else the stem
\* of the file name, else a hash of the path
session_id_of(session_id, stem, path) ==
    IF session_id.some THEN session_id.v
    ELSE IF stem.some THEN stem.v
    ELSE uuid_from_path(path)

\* the session of the accumulators the line loop ended with, if any
session_from(f, path, st) ==
    IF Len(st.messages) = 0 THEN Ok(None)
    ELSE Ok(Some([id |-> session_id_of(st.session_id, file_stem(path), path),
                  project_path |-> extract_project_path(path),
                  cwd |-> st.cwd,
                  created_at |-> st.first_timestamp,
                  updated_at |-> IF st.last_timestamp.some THEN st.last_timestamp
                                 ELSE modified(f),
                  messages |-> st.messages,
                  file_path |-> path]))

\* the session of the lines read from a file
parse_content(f, content) ==
    IF ~content.ok THEN Err(content.e)
    ELSE IF Len(content.v) = 0 THEN Ok(None)
    ELSE session_from(f, path_of(f), parse_lines(parse_start, content.v))

\* Result<Option<Session>>
try_parse_jsonl_session(f) == parse_content(f, read_to_string(f))

(***************************************************************************)
(* Ranking & Projection                                                    *)
(***************************************************************************)
PreviewChars == 200

RequestChars == 500

ListCap == 100

SearchCap == 50

MaxPaths == 20

MaxTerms == 15

MaxDepth == 3

\* the position of the first message whose role is "user", 0 if none
find_user(messages) ==
    LET hits == {i \in 1..Len(messages) : messages[i].role = s_user}
    IN  IF hits = {} THEN 0 ELSE SetMin(hits)

\* the preview of a summary: the first 200 characters of the message, with
\* "..." appended when the BYTE length of the content exceeds 200
preview_of(m) ==
    LET content == chars_take(m.content, PreviewChars)
    IN  IF str_len(m.content) > PreviewChars THEN content \o s_ellipsis ELSE content

map_rfc3339(o) == IF o.some THEN Some(to_rfc3339(o.v)) ELSE None

session_to_summary(session) ==
    LET u == find_user(session.messages)
        preview == IF u = 0 THEN s_no_preview
                   ELSE preview_of(session.messages[u])
    IN  [id |-> session.id,
         project_path |-> session.project_path,
         cwd |-> session.cwd,
         created_at |-> map_rfc3339(session.created_at),
         updated_at |-> map_rfc3339(session.updated_at),
         message_count |-> Len(session.messages),
         preview |-> preview]

(***************************************************************************)
(* Path/Term Analyzers                                                     *)
(***************************************************************************)
\* the words of every message, message by message
words_of(messages) ==
    [i \in 1..Len(messages) |-> split_whitespace(messages[i].content)]

\* every (message, word) position, with the word there
occurrences(words) ==
    UNION {{[w |-> words[i][k], at |-> <<i, k>>] : k \in 1..Len(words[i])} :
              i \in 1..Len(words)}

\* every (message, word) position of the session, with the word there
word_occurrences(session) == occurrences(Eager(words_of(session.messages)))

is_path_noise(c) == ~is_alphanumeric(c) /\ c \notin {47, 92, 46, 95, 45}

\* word.trim_matches(|c| ...): the word without the characters at either
\* end that are neither alphanumeric nor one of / \ . _ -
trim_matches(word) ==
    LET keep == {i \in 1..Len(word) : ~is_path_noise(word[i])}
    IN  IF keep = {} THEN <<>> ELSE SubSeq(word, SetMin(keep), SetMax(keep))

\* the elements of a set of strings in lexical order (Vec::sort)
sorted_strings(S) ==
    LET ranked == {[x |-> x, k |-> 1 + Cardinality({y \in S : str_lt(y, x)})] : x \in S}
    IN  Eager([p \in 1..Cardinality(S) |-> (CHOOSE r \in ranked : r.k = p).x])

\* a word with a separator, and with a dot or a trailing slash
is_path_word(word) ==
    /\ (contains_char(word, 47) \/ contains_char(word, 92))
    /\ (contains_char(word, 46) \/ ends_with_char(word, 47))

\* the HashSet of the cleaned path words longer than 3 bytes
path_set(session) ==
    {c \in {trim_matches(o.w) :
                o \in {q \in word_occurrences(session) : is_path_word(q.w)}} :
        str_len(c) > 3}

\* extract_file_paths without the cap on the number of paths
extract_file_paths_uncapped(session) == sorted_strings(path_set(session))

extract_file_paths(session) == truncate(sorted_strings(path_set(session)), MaxPaths)

stop_words ==
    {<<116, 104, 101>>, <<97>>, <<97, 110>>, <<105, 115>>,
     <<97, 114, 101>>, <<119, 97, 115>>, <<119, 101, 114, 101>>,
     <<98, 101>>, <<98, 101, 101, 110>>, <<98, 101, 105, 110, 103>>,
     <<104, 97, 118, 101>>, <<104, 97, 115>>, <<104, 97, 100>>,
     <<100, 111>>, <<100, 111, 101, 115>>, <<100, 105, 100>>,
     <<119, 105, 108, 108>>, <<119, 111, 117, 108, 100>>,
     <<99, 111, 117, 108, 100>>, <<115, 104, 111, 117, 108, 100>>,
     <<109, 97, 121>>, <<109, 105, 103, 104, 116>>,
     <<109, 117, 115, 116>>, <<115, 104, 97, 108, 108>>, <<99, 97, 110>>,
     <<110, 101, 101, 100>>, <<100, 97, 114, 101>>,
     <<111, 117, 103, 104, 116>>, <<117, 115, 101, 100>>, <<116, 111>>,
     <<111, 102>>, <<105, 110>>, <<102, 111, 114>>, <<111, 110>>,
     <<119, 105, 116, 104>>, <<97, 116>>, <<98, 121>>,
     <<102, 114, 111, 109>>, <<97, 115>>, <<105, 110, 116, 111>>,
     <<116, 104, 114, 111, 117, 103, 104>>,
     <<100, 117, 114, 105, 110, 103>>, <<98, 101, 102, 111, 114, 101>>,
     <<97, 102, 116, 101, 114>>, <<97, 98, 111, 118, 101>>,
     <<98, 101, 108, 111, 119>>, <<98, 101, 116, 119, 101, 101, 110>>,
     <<117, 110, 100, 101, 114>>, <<97, 103, 97, 105, 110>>,
     <<102, 117, 114, 116, 104, 101, 114>>, <<116, 104, 101, 110>>,
     <<111, 110, 99, 101>>, <<104, 101, 114, 101>>,
     <<116, 104, 101, 114, 101>>, <<119, 104, 101, 110>>,
     <<119, 104, 101, 114, 101>>, <<119, 104, 121>>, <<104, 111, 119>>,
     <<97, 108, 108>>, <<101, 97, 99, 104>>, <<102, 101, 119>>,
     <<109, 111, 114, 101>>, <<109, 111, 115, 116>>,
     <<111, 116, 104, 101, 114>>, <<115, 111, 109, 101>>,
     <<115, 117, 99, 104>>, <<110, 111>>, <<110, 111, 114>>,
     <<110, 111, 116>>, <<111, 110, 108, 121>>, <<111, 119, 110>>,
     <<115, 97, 109, 101>>, <<115, 111>>, <<116, 104, 97, 110>>,
     <<116, 111, 111>>, <<118, 101, 114, 121>>, <<106, 117, 115, 116>>,
     <<97, 110, 100>>, <<98, 117, 116>>, <<105, 102>>, <<111, 114>>,
     <<98, 101, 99, 97, 117, 115, 101>>, <<117, 110, 116, 105, 108>>,
     <<119, 104, 105, 108, 101>>, <<116, 104, 105, 115>>,
     <<116, 104, 97, 116>>, <<116, 104, 101, 115, 101>>,
     <<116, 104, 111, 115, 101>>, <<105>>, <<121, 111, 117>>,
     <<104, 101>>, <<115, 104, 101>>, <<105, 116>>, <<119, 101>>,
     <<116, 104, 101, 121>>, <<119, 104, 97, 116>>,
     <<119, 104, 105, 99, 104>>, <<119, 104, 111>>,
     <<119, 104, 111, 109>>, <<105, 116, 115>>, <<104, 105, 115>>,
     <<104, 101, 114>>, <<116, 104, 101, 105, 114>>, <<109, 121>>,
     <<121, 111, 117, 114>>, <<111, 117, 114>>, <<116, 111, 111, 108>>,
     <<102, 105, 108, 101>>, <<112, 97, 116, 104>>}

\* word.chars().filter(|c| c.is_alphanumeric()).collect().to_lowercase()
clean_term(word) == to_lowercase(SelectSeq(word, is_alphanumeric))

HashOrders == 2

\* s rotated to the left by k positions
rotate(s, k) == Eager([p \in 1..Len(s) |-> s[((p - 1 + k) % Len(s)) + 1]])

reverse(s) == Eager([p \in 1..Len(s) |-> s[Len(s) + 1 - p]])

\* The iteration order of a std HashMap is unspecified and changes with the
\* map's random seed; order stands for that seed and selects one of the
\* orders (a rotation of the keys, possibly reversed).
hash_iter(keys, order) ==
    IF order % 2 = 0 THEN rotate(sorted_strings(keys), order \div 2)
    ELSE reverse(rotate(sorted_strings(keys), order \div 2))

\* the occurrences of the cleaned words that are counted: longer than 3
\* bytes and no stop word
term_occurrences(session) ==
    {o \in {[w |-> clean_term(q.w), at |-> q.at] : q \in word_occurrences(session)} :
        str_len(o.w) > 3 /\ o.w \notin stop_words}

\* word_counts.into_iter().collect(): the counted words in the map's
\* iteration order, each with its count
count_terms(kept, iter) ==
    [p \in 1..Len(iter) |->
        [word |-> iter[p], n |-> Cardinality({o \in kept : o.w = iter[p]})]]

\* cmp of the term sort: b.1.cmp(&a.1) is Less
more_frequent(a, b) == b.n < a.n

\* sorted.sort_by(|a, b| b.1.cmp(&a.1))
sort_by_count(v) ==
    sort_by(v, [i \in 1..Len(v) |-> [j \in 1..Len(v) |-> more_frequent(v[i], v[j])]])

\* map(|(word, _)| word)
words_only(pairs) == [p \in 1..Len(pairs) |-> pairs[p].word]

\* the most frequent counted words, at most 15
top_terms(kept, order) ==
    words_only(truncate(sort_by_count(
                            Eager(count_terms(kept, hash_iter({o.w : o \in kept}, order)))),
                        MaxTerms))

extract_key_terms(session, order) == top_terms(term_occurrences(session), order)

(***************************************************************************)
(* Directory Scanner and the four operations of SessionStore               *)
(***************************************************************************)
\* SessionStore::new: the store exists only if ~/.claude does
SessionStore_new(r) == IF r = "missing" THEN Err("ClaudeDirNotFound") ELSE Ok(base_path)

\* projects_dir.exists()
projects_dir_exists(r) == r = "ok"

within_depth(f) == Len(f.rel) <= MaxDepth

\* WalkDir::new(&projects_dir).max_depth(3): the entries visited, in walk order
walk(fs) == SelectSeq(fs, within_depth)

\* path.is_file() && path.extension().is_some_and(|e| e == "jsonl")
is_jsonl_file(f) == f.is_file /\ extension(path_of(f)) = Some(s_jsonl)

\* path.file_name().map_or(false, |n| n.starts_with("agent-"))
is_agent_file(f) ==
    file_name(path_of(f)).some /\ starts_with(file_name(path_of(f)).v, s_agent_prefix)

\* the files list_sessions and search_sessions hand to the parser
is_session_file(f) == is_jsonl_file(f) /\ ~is_agent_file(f)

\* what the parser returns for each file of a sequence
parse_all(fs) == [i \in 1..Len(fs) |-> try_parse_jsonl_session(fs[i])]

\* if let Ok(Some(session)) = self.try_parse_jsonl_session(path)
is_session(parsed) == parsed.ok /\ parsed.v.some

\* the sessions of a sequence of results that each hold one
sessions_of(results) == [i \in 1..Len(results) |-> results[i].v.v]

\* the sessions list_sessions and search_sessions find, in walk order
scan(fs) ==
    sessions_of(SelectSeq(parse_all(SelectSeq(walk(fs), is_session_file)), is_session))

summaries(sessions) == [i \in 1..Len(sessions) |-> session_to_summary(sessions[i])]

\* cmp of the listing sort: b.updated_at.cmp(&a.updated_at) is Less
more_recent(a, b) == opt_lt(b.updated_at, a.updated_at)

\* sessions.sort_by(|a, b| b.updated_at.cmp(&a.updated_at))
sort_by_recency(v) ==
    sort_by(v, [i \in 1..Len(v) |-> [j \in 1..Len(v) |-> more_recent(v[i], v[j])]])

\* list_sessions without the upper bound on the limit
list_sessions_uncapped(r, fs, limit) ==
    IF ~projects_dir_exists(r) THEN Ok(<<>>)
    ELSE Ok(truncate(sort_by_recency(Eager(summaries(scan(fs)))), limit))

\* list_sessions propagating the error of a file it cannot parse
list_sessions_abort(r, fs, limit) ==
    IF ~projects_dir_exists(r) THEN Ok(<<>>)
    ELSE IF \E i \in 1..Len(fs) :
               /\ within_depth(fs[i]) /\ is_session_file(fs[i])
               /\ ~try_parse_jsonl_session(fs[i]).ok
    THEN Err("io_error")
    ELSE Ok(truncate(sort_by_recency(Eager(summaries(scan(fs)))), Min(limit, ListCap)))

list_sessions(r, fs, limit) ==
    IF ~projects_dir_exists(r) THEN Ok(<<>>)
    ELSE Ok(truncate(sort_by_recency(Eager(summaries(scan(fs)))), Min(limit, ListCap)))

\* whether pattern[qi..] occurs in text[from..] as a subsequence
RECURSIVE subseq_from(_, _, _, _)
subseq_from(text, pattern, qi, from) ==
    IF qi > Len(pattern) THEN TRUE
    ELSE LET at == {j \in from..Len(text) : text[j] = pattern[qi]}
         IN  at # {} /\ subseq_from(text, pattern, qi + 1, SetMin(at) + 1)

\* smart case: the match ignores case unless the pattern has an upper-case
\* letter
smart_case(text, pattern) ==
    IF \E i \in 1..Len(pattern) : to_lowercase_char(pattern[i]) # pattern[i]
    THEN text ELSE to_lowercase(text)

\* the score of a pattern of n characters: the per-character match score
\* and the bonus for consecutive matches
score_of(n, consecutive) == 16 * n + (IF consecutive THEN 4 * (n - 1) ELSE 0)

\* whether the pattern occurs in the text as a substring
occurs_in(text, pattern) ==
    \E i \in 1..(Len(text) - Len(pattern) + 1) :
        SubSeq(text, i, i + Len(pattern) - 1) = pattern

\* the score of a pattern against a text in which case is already settled
match_in(text, pattern) ==
    IF ~subseq_from(text, pattern, 1, 1) THEN None
    ELSE Some(score_of(Len(pattern), occurs_in(text, pattern)))

\* SkimMatcherV2::default().fuzzy_match(text, pattern): a score exactly when
\* the pattern occurs in the text as a subsequence (ignoring case unless the
\* pattern has an upper-case letter).  The score of the external matcher is
\* represented by two of its components: the per-character match score and
\* the bonus for consecutive matches.
fuzzy_match(text, pattern) == match_in(smart_case(text, pattern), pattern)

\* the contents of the messages
contents(messages) == [i \in 1..Len(messages) |-> messages[i].content]

\* the search corpus of a session
full_text(session) == join(contents(session.messages), <<32>>)

\* the match of one session: its score, if any, and its summary
scored(session, query) ==
    [score |-> fuzzy_match(full_text(session), query),
     summary |-> session_to_summary(session)]

score_all(sessions, query) == [i \in 1..Len(sessions) |-> scored(sessions[i], query)]

\* if let Some(score) = matcher.fuzzy_match(&full_text, query)
has_score(x) == x.score.some

\* results.push((score, session_to_summary(&session)))
results_of(matched) ==
    [i \in 1..Len(matched) |->
        [score |-> matched[i].score.v, summary |-> matched[i].summary]]

\* the order of the search sort turned round
worse_score(a, b) == a.score < b.score

\* cmp of the search sort: b.0.cmp(&a.0) is Less
better_score(a, b) == b.score < a.score

\* results.sort_by(|a, b| b.0.cmp(&a.0))
sort_by_score(v) ==
    sort_by(v, [i \in 1..Len(v) |-> [j \in 1..Len(v) |-> better_score(v[i], v[j])]])

\* map(|(_, s)| s)
summaries_only(results) == [i \in 1..Len(results) |-> results[i].summary]

search_sessions(r, fs, query, limit) ==
    IF ~projects_dir_exists(r) THEN Ok(<<>>)
    ELSE Ok(summaries_only(
                truncate(sort_by_score(
                             Eager(results_of(SelectSeq(score_all(scan(fs), query),
                                                        has_score)))),
                         Min(limit, SearchCap))))

\* the files get_session hands to the parser: those named session_id.jsonl
has_stem(f, session_id) ==
    is_jsonl_file(f) /\ file_stem(path_of(f)) = Some(session_id)

\* the first of the sessions found, if any
first_session(found) == IF Len(found) = 0 THEN Ok(None) ELSE Ok(Some(found[1]))

get_session(r, fs, session_id) ==
    IF ~projects_dir_exists(r) THEN Ok(None)
    ELSE first_session(
             sessions_of(SelectSeq(parse_all(SelectSeq(walk(fs),
                                                       LAMBDA f : has_stem(f, session_id))),
                                   is_session)))

\* the initial request: the first 500 characters of the message, with "..."
\* appended when the BYTE length of the content exceeds 500
initial_request_of(m) ==
    IF str_len(m.content) > RequestChars
    THEN chars_take(m.content, RequestChars) \o s_ellipsis
    ELSE chars_take(m.content, RequestChars)

\* the context of a session whose first "user" message is at position u
context_of(session, u, order) ==
    [id |-> session.id,
     cwd |-> session.cwd,
     initial_request |->
         IF u = 0 THEN None ELSE Some(initial_request_of(session.messages[u])),
     message_count |-> Len(session.messages),
     files_mentioned |-> extract_file_paths(session),
     key_terms |-> extract_key_terms(session, order)]

\* the context of what get_session returned
context_from(got, order) ==
    IF ~got.ok THEN got
    ELSE IF ~got.v.some THEN Ok(None)
    ELSE Ok(Some(context_of(got.v.v, find_user(got.v.v.messages), order)))

get_session_context(r, fs, session_id, order) ==
    context_from(get_session(r, fs, session_id), order)

(***************************************************************************)
(* The storage: session files as the CLI writes them, and other entries    *)
(***************************************************************************)
\* "s1"
id_s1 == <<115, 49>>

\* "a"
id_a == <<97>>

\* "b"
id_b == <<98>>

\* "s2"
id_s2 == <<115, 50>>

\* "zz"
id_zz == <<122, 122>>

\* "agent-1"
id_agent == <<97, 103, 101, 110, 116, 45, 49>>

\* "-w-p"
dir_p == <<45, 119, 45, 112>>

\* "q"
dir_q == <<113>>

\* "d"
dir_d == <<100>>

\* "e"
dir_e == <<101>>

\* "s1.jsonl"
name_s1 == <<115, 49, 46, 106, 115, 111, 110, 108>>

\* "a.jsonl"
name_a == <<97, 46, 106, 115, 111, 110, 108>>

\* "b.jsonl"
name_b == <<98, 46, 106, 115, 111, 110, 108>>

\* "c.jsonl"
name_c == <<99, 46, 106, 115, 111, 110, 108>>

\* "s2.jsonl"
name_s2 == <<115, 50, 46, 106, 115, 111, 110, 108>>

\* "s3.jsonl"
name_s3 == <<115, 51, 46, 106, 115, 111, 110, 108>>

\* "s4.jsonl"
name_s4 == <<115, 52, 46, 106, 115, 111, 110, 108>>

\* "agent-1.jsonl"
name_agent == <<97, 103, 101, 110, 116, 45, 49, 46, 106, 115, 111, 110, 108>>

\* "s1.json"
name_json == <<115, 49, 46, 106, 115, 111, 110>>

\* "s5.jsonl"
name_s5 == <<115, 53, 46, 106, 115, 111, 110, 108>>

\* "d.jsonl"
name_dir == <<100, 46, 106, 115, 111, 110, 108>>

\* "/w"
cwd_w == <<47, 119>>

\* "fix src/main.rs"
t_fix == <<102, 105, 120, 32, 115, 114, 99, 47, 109, 97, 105, 110, 46, 114, 115>>

\* "done"
t_done == <<100, 111, 110, 101>>

\* "hi"
t_hi == <<104, 105>>

\* "hi there"
t_hi_there == <<104, 105, 32, 116, 104, 101, 114, 101>>

\* "hello"
t_hello == <<104, 101, 108, 108, 111>>

\* "h i"
t_high == <<104, 32, 105>>

\* "plan"
t_plan == <<112, 108, 97, 110>>

\* "go"
t_go == <<103, 111>>

\* "ok"
t_ok == <<111, 107>>

\* "meta"
t_meta == <<109, 101, 116, 97>>

\* "Write"
t_write == <<87, 114, 105, 116, 101>>

\* "Bash"
t_bash == <<66, 97, 115, 104>>

\* "/w/src/main.rs"
t_main_rs == <<47, 119, 47, 115, 114, 99, 47, 109, 97, 105, 110, 46, 114, 115>>

\* "summary"
t_summary == <<115, 117, 109, 109, 97, 114, 121>>

\* "text"
t_text == <<116, 101, 120, 116>>

\* "hi"
q_hi == <<104, 105>>

\* "zz"
q_zz == <<122, 122>>

\* instants: year * 100 + position within the year
T2023 == 202350

T2024a == 202401

T2024b == 202402

T10000 == 1000001

Ts(t) == Some([valid |-> TRUE, t |-> t])

\* a timestamp field whose text is not a date
BadTs == Some([valid |-> FALSE, t |-> 0])

BlankLine == [kind |-> "blank"]

\* a line that is not JSON
InvalidLine == [kind |-> "invalid"]

\* a line whose bytes are not valid UTF-8
EncodingLine == [kind |-> "invalid_utf8"]

JsonLine(sid, cwd, ts, type, message) ==
    [kind |-> "json", sessionId |-> sid, cwd |-> cwd, timestamp |-> ts,
     type |-> type, message |-> message]

StrMsg(role, text) == Some([role |-> role, content |-> [k |-> "str", s |-> text]])

ArrMsg(role, items) == Some([role |-> role, content |-> [k |-> "arr", items |-> items]])

\* a message whose content is neither a string nor an array
OtherMsg(role) == Some([role |-> role, content |-> [k |-> "other"]])

TextBlock(t) == [text |-> Some(t), type |-> Some(t_text), name |-> None, input |-> None]

ToolBlock(name, fp, cmd) ==
    [text |-> None, type |-> Some(s_tool_use), name |-> Some(name),
     input |-> Some([file_path |-> fp, command |-> cmd])]

File(rel, lines, mtime) ==
    [rel |-> rel, is_file |-> TRUE, read |-> "ok", lines |-> lines, mtime |-> mtime]

UserHi(sid, ts) == JsonLine(sid, None, ts, Some(s_user), StrMsg(Some(s_user), t_hi))

\* an ordinary session: a request and an answer with a tool call
fS1 ==
    File(<<dir_p, name_s1>>,
         <<JsonLine(Some(id_s1), Some(cwd_w), Ts(T2024a), Some(s_user),
                    StrMsg(Some(s_user), t_fix)),
           JsonLine(Some(id_s1), Some(cwd_w), Ts(T2024b), Some(s_assistant),
                    ArrMsg(Some(s_assistant),
                           <<TextBlock(t_done), ToolBlock(t_write, Some(t_main_rs), None)>>))>>,
         Some(T2024b))

\* a file whose records carry a sessionId that is not the file's name
fA ==
    File(<<dir_p, name_a>>,
         <<JsonLine(Some(id_b), None, Ts(T2023), Some(s_user),
                    StrMsg(Some(s_user), t_hi_there))>>,
         Some(T2023))

\* no sessionId and no timestamp: the id and updated_at come from the file
fB ==
    File(<<dir_p, name_b>>,
         <<JsonLine(None, None, None, Some(s_user), StrMsg(Some(s_user), t_hello))>>,
         Some(T2024b))

\* no timestamp and no modification time: updated_at is absent
fC ==
    File(<<dir_q, name_c>>,
         <<JsonLine(None, Some(cwd_w), BadTs, Some(s_assistant), StrMsg(None, t_high))>>,
         None)

\* a timestamp beyond year 9999, between a broken and a blank line
fS2 ==
    File(<<dir_q, name_s2>>,
         <<InvalidLine, UserHi(Some(id_s2), Ts(T10000)), BlankLine>>,
         Some(T2024a))

\* a file that cannot be read
fS3 == [File(<<dir_q, name_s3>>, <<UserHi(Some(id_s1), Ts(T2024a))>>, Some(T2024a))
           EXCEPT !.read = "io_error"]

\* only records that are not conversational: no session
fS4 ==
    File(<<dir_q, name_s4>>,
         <<JsonLine(Some(id_zz), None, Ts(T2024a), Some(t_summary),
                    StrMsg(Some(s_user), t_meta))>>,
         Some(T2024a))

\* a subordinate (agent) session
fAgent == File(<<dir_q, name_agent>>, <<UserHi(None, Ts(T2024b))>>, Some(T2024b))

\* a session-like file with another extension
fJson == File(<<dir_q, name_json>>, <<UserHi(Some(id_s1), Ts(T2024a))>>, Some(T2024a))

\* a file below the depth the walk reaches
fDeep ==
    File(<<dir_q, dir_d, dir_e, name_s5>>, <<UserHi(None, Ts(T2024a))>>, Some(T2024a))

\* a directory whose name looks like a session file
fDir == [File(<<dir_q, name_dir>>, <<>>, Some(T2024a)) EXCEPT !.is_file = FALSE]

CoreFiles == {fS1, fA, fB, fC, fS2, fS3, fS4, fAgent, fJson, fDeep, fDir}

MaxFiles == 2

\* the sequences of at most n distinct entries of a catalogue
Listings(catalogue, n) ==
    {s \in UNION {[1..k -> catalogue] : k \in 0..n} :
        \A i, j \in 1..Len(s) : i # j => s[i].rel # s[j].rel}

\* a storage with more sessions than either result cap
BulkFile(i) ==
    File(<<dir_q, <<107>> \o pad_digits(i, 3) \o <<46>> \o s_jsonl>>,
         <<UserHi(None, Ts(202400 + ((i * 37) % 100)))>>,
         Some(T2024a))

BulkStore == [i \in 1..(ListCap + 1) |-> BulkFile(i)]

(***************************************************************************)
(* The state machine: each action is one tool call, which builds the store *)
(* and runs one operation against the storage as it is.                    *)
(***************************************************************************)
Limits == {0, 1, 150}

\* the empty string stands for an absent argument as well
Queries == {<<>>, q_hi, q_zz}

Ids == {<<>>, id_s1, id_a, id_b, id_s2, id_zz, id_agent}

NoCall ==
    [op |-> "none", limit |-> 0, query |-> <<>>, session_id |-> <<>>,
     store |-> Ok(base_path), result |-> Ok(None)]

\* no line is sent to the server's standard input: the tool calls are
\* looked at one by one
NoInput == stdin = <<>> /\ line_no = 0 /\ stdout = <<>>

\* the server handles one request at a time: it reads the next line only
\* after the response to the previous one is written
Waiting == last.op = "none"

\* the outcome of a tool call: the store's construction error, or what the
\* operation returned
Outcome(store, result) == IF store.ok THEN result ELSE store

\* the outcome of a tool call that requires an argument: without the
\* argument the operation is not run
OutcomeWith(store, argument, result) ==
    IF ~store.ok THEN store
    ELSE IF argument = <<>> THEN Err("ParameterRequired")
    ELSE result

ListSessions ==
    /\ Waiting
    /\ \E limit \in Limits :
          last' = [op |-> "list_sessions", limit |-> limit, query |-> <<>>,
                   session_id |-> <<>>, store |-> SessionStore_new(root),
                   result |-> Outcome(SessionStore_new(root),
                                      list_sessions(root, files, limit))]
    /\ UNCHANGED <<root, files, stdin, line_no, stdout>>

SearchSessions ==
    /\ Waiting
    /\ \E query \in Queries, limit \in Limits :
          last' = [op |-> "search_sessions", limit |-> limit, query |-> query,
                   session_id |-> <<>>, store |-> SessionStore_new(root),
                   result |-> OutcomeWith(SessionStore_new(root), query,
                                          search_sessions(root, files, query, limit))]
    /\ UNCHANGED <<root, files, stdin, line_no, stdout>>

GetSession ==
    /\ Waiting
    /\ \E session_id \in Ids :
          last' = [op |-> "get_session", limit |-> 0, query |-> <<>>,
                   session_id |-> session_id, store |-> SessionStore_new(root),
                   result |-> OutcomeWith(SessionStore_new(root), session_id,
                                          get_session(root, files, session_id))]
    /\ UNCHANGED <<root, files, stdin, line_no, stdout>>

GetSessionContext ==
    /\ Waiting
    /\ \E session_id \in Ids, order \in 0..(HashOrders - 1) :
          last' = [op |-> "get_session_context", limit |-> 0, query |-> <<>>,
                   session_id |-> session_id, store |-> SessionStore_new(root),
                   result |-> OutcomeWith(SessionStore_new(root), session_id,
                                          get_session_context(root, files, session_id,
                                                              order))]
    /\ UNCHANGED <<root, files, stdin, line_no, stdout>>

\* the response is written and the server reads on
Respond ==
    /\ ~Waiting
    /\ last' = NoCall
    /\ UNCHANGED <<root, files, stdin, line_no, stdout>>

Next == ListSessions \/ SearchSessions \/ GetSession \/ GetSessionContext \/ Respond

\* any storage of at most MaxFiles entries, or the large one
Init ==
    /\ root \in {"missing", "no_projects", "ok"}
    /\ files \in IF root = "ok" THEN Listings(CoreFiles, MaxFiles) \cup {BulkStore}
                 ELSE {<<>>}
    /\ last = NoCall
    /\ NoInput

Spec == Init /\ [][Next]_vars

(***************************************************************************)
(* The parser on one file (projects/-w-p/s1.jsonl) of any lines            *)
(***************************************************************************)
\* a request with all its metadata
lineUser ==
    JsonLine(Some(id_s1), Some(cwd_w), Ts(T2024a), Some(s_user), StrMsg(Some(s_user), t_hi))

\* an answer whose only block is an empty text: metadata, no content
lineEmpty ==
    JsonLine(Some(id_b), None, Ts(T2023), Some(s_assistant),
             ArrMsg(Some(s_assistant), <<TextBlock(<<>>)>>))

\* a record that is not conversational, with a message payload
lineSummary ==
    JsonLine(Some(id_zz), Some(<<47, 122>>), Ts(T2024b), Some(t_summary),
             StrMsg(Some(s_user), t_meta))

\* an answer without role, sessionId and cwd, whose timestamp is not a date
lineBare == JsonLine(None, None, BadTs, Some(s_assistant), StrMsg(None, t_ok))

\* a request whose nested role is the legacy "human"
lineHuman == JsonLine(None, None, Ts(T10000), Some(s_user), StrMsg(Some(s_human), t_plan))

\* a conversational record without a message
lineNoMessage == JsonLine(Some(id_a), None, Ts(T2024b), Some(s_user), None)

\* an answer made of a tool call and a block that is neither text nor tool
lineTool ==
    JsonLine(None, None, None, Some(s_assistant),
             ArrMsg(Some(s_assistant),
                    <<ToolBlock(t_bash, None, Some(t_go)),
                      [text |-> None, type |-> Some(t_meta), name |-> None, input |-> None]>>))

\* a request whose content is neither a string nor an array
lineOther == JsonLine(None, None, None, Some(s_user), OtherMsg(Some(s_user)))

\* an answer whose only block is a tool call with a command of 51 characters
lineLongCommand ==
    JsonLine(None, None, None, Some(s_assistant),
             ArrMsg(Some(s_assistant),
                    <<ToolBlock(t_bash, None, Some([i \in 1..51 |-> 120]))>>))

\* an answer of blocks of every shape: a tool call that has a text, one with
\* a file path and a command, one without name, an empty text, one whose
\* input has neither file path nor command, and one without input
lineBlocks ==
    JsonLine(None, None, None, Some(s_assistant),
             ArrMsg(Some(s_assistant),
                    <<[text |-> Some(t_ok), type |-> Some(s_tool_use),
                       name |-> Some(t_write), input |-> None],
                      ToolBlock(t_write, Some(t_main_rs), Some(t_go)),
                      [text |-> None, type |-> Some(s_tool_use), name |-> None,
                       input |-> Some([file_path |-> Some(t_main_rs), command |-> None])],
                      TextBlock(<<>>),
                      ToolBlock(t_bash, None, None),
                      [text |-> None, type |-> Some(s_tool_use), name |-> Some(t_bash),
                       input |-> None]>>))

LineCatalogue ==
    {InvalidLine, BlankLine, lineUser, lineEmpty, lineSummary, lineBare, lineHuman,
     lineNoMessage, lineTool, lineOther, lineLongCommand, lineBlocks, EncodingLine}

MaxLines == 2

InitParse ==
    /\ root = "ok"
    /\ \E lines \in UNION {[1..n -> LineCatalogue] : n \in 0..MaxLines},
          mtime \in {None, Some(T2024a)} :
          files = <<File(<<dir_p, name_s1>>, lines, mtime)>>
    /\ last = NoCall
    /\ NoInput

SpecParse == InitParse /\ [][Next]_vars

(***************************************************************************)
(* Projection and analysis of one session (projects/-w-p/s1.jsonl) whose   *)
(* messages are drawn from texts around the limits of the program          *)
(***************************************************************************)
\* n times the character c
Repeat(c, n) == [i \in 1..n |-> c]

\* 201 ASCII letters: one more than the preview keeps
textA201 == Repeat(97, PreviewChars + 1)

\* 501 ASCII letters: one more than the initial request keeps
textA501 == Repeat(97, RequestChars + 1)

\* 150 and 300 two-byte letters (e with acute accent)
textE150 == Repeat(233, 150)

textE300 == Repeat(233, 300)

\* 21 distinct paths "/u.x", "/t.x", ... "/a.x" in descending order, then
\* the first one again in brackets: "(/u.x),"
textPaths ==
    [p \in 1..(5 * (MaxPaths + 1)) |->
        LET i == (p - 1) \div 5
            r == (p - 1) % 5
        IN  IF r = 0 THEN 47 ELSE IF r = 1 THEN 97 + MaxPaths - i
            ELSE IF r = 2 THEN 46 ELSE IF r = 3 THEN 120 ELSE 32]
    \o <<40, 47, 97 + MaxPaths, 46, 120, 41, 44>>

\* 16 distinct words "Aaaa", "Bbbb", ... and the first two again: "Aaaa! bbbb"
textTerms ==
    [p \in 1..(5 * (MaxTerms + 1)) |->
        LET i == (p - 1) \div 5
            r == (p - 1) % 5
        IN  IF r = 0 THEN 65 + i ELSE IF r = 4 THEN 32 ELSE 97 + i]
    \o <<65, 97, 97, 97, 33, 32, 98, 98, 98, 98>>

\* "Which file: src\lib.rs or ./a/ ?", with stop words and short words
textMixed ==
    <<87, 104, 105, 99, 104, 32, 102, 105, 108, 101, 58, 32, 115, 114, 99, 92, 108,
      105, 98, 46, 114, 115, 32, 111, 114, 32, 46, 47, 97, 47, 32, 63>>

TextLine(type, role, text) == JsonLine(None, None, None, Some(type), StrMsg(Some(role), text))

TextCatalogue ==
    {TextLine(s_user, s_user, t) :
        t \in {textA201, textA501, textE150, textE300, textPaths, textTerms, textMixed}}
    \cup {TextLine(s_user, s_human, t_plan), TextLine(s_assistant, s_assistant, t_fix)}

MaxMessages == 2

InitText ==
    /\ root = "ok"
    /\ \E lines \in UNION {[1..n -> TextCatalogue] : n \in 1..MaxMessages} :
          files = <<File(<<dir_p, name_s1>>, lines, Some(T2024a))>>
    /\ last = NoCall
    /\ NoInput

SpecText == InitText /\ [][Next]_vars

(***************************************************************************)
(* JSON-RPC protocol types (src/src/protocol.rs) and the JSON values of a  *)
(* request                                                                 *)
(***************************************************************************)
\* Value::Null
JNull == [k |-> "null"]

\* a number that fits 64 bits
JNum(n) == [k |-> "num", n |-> n]

JStr(s) == [k |-> "str", s |-> s]

\* a value that is neither null, a number nor a string
JOther == [k |-> "other"]

\* Value::is_null
is_null(v) == v.k = "null"

\* object.get(key).and_then(|v| v.as_str()) on the member o, absent or not
as_str(o) == IF o.some /\ o.v.k = "str" THEN Some(o.v.s) ELSE None

\* object.get(key).and_then(|v| v.as_u64()) on the member o, absent or not
as_u64(o) == IF o.some /\ o.v.k = "num" /\ o.v.n >= 0 THEN Some(o.v.n) ELSE None

\* Option::unwrap_or
unwrap_or(o, default) == IF o.some THEN o.v ELSE default

\* format!(fmt, arg): the text of a message, kept as its format and argument
format(fmt, arg) == [fmt |-> fmt, arg |-> arg]

\* serde_json::to_string_pretty(&value): the JSON text of a value
to_string_pretty(value) == [fmt |-> "json", arg |-> value]

\* "2.0"
v_2_0 == <<50, 46, 48>>

\* JsonRpcResponse::success answering with a null id
JsonRpcResponse_success_null(id, result) ==
    [jsonrpc |-> v_2_0, id |-> JNull, result |-> Some(result), error |-> None]

JsonRpcResponse_success(id, result) ==
    [jsonrpc |-> v_2_0, id |-> id, result |-> Some(result), error |-> None]

JsonRpcResponse_error(id, code, message) ==
    [jsonrpc |-> v_2_0, id |-> id, result |-> None,
     error |-> Some([code |-> code, message |-> message])]

ToolResult_text(content) ==
    [content |-> <<[type |-> "text", text |-> content]>>, is_error |-> None]

ToolResult_error(message) ==
    [content |-> <<[type |-> "text", text |-> message]>>, is_error |-> Some(TRUE)]

(***************************************************************************)
(* The server (src/src/main.rs)                                            *)
(***************************************************************************)
\* "initialize"
m_initialize == <<105, 110, 105, 116, 105, 97, 108, 105, 122, 101>>

\* "notifications/initialized"
m_notifications_initialized ==
    <<110, 111, 116, 105, 102, 105, 99, 97, 116, 105, 111, 110, 115, 47, 105, 110,
      105, 116, 105, 97, 108, 105, 122, 101, 100>>

\* "initialized"
m_initialized == <<105, 110, 105, 116, 105, 97, 108, 105, 122, 101, 100>>

\* "tools/list"
m_tools_list == <<116, 111, 111, 108, 115, 47, 108, 105, 115, 116>>

\* "tools/call"
m_tools_call == <<116, 111, 111, 108, 115, 47, 99, 97, 108, 108>>

\* "notifications/"
m_notifications_prefix ==
    <<110, 111, 116, 105, 102, 105, 99, 97, 116, 105, 111, 110, 115, 47>>

\* "list_sessions"
n_list_sessions == <<108, 105, 115, 116, 95, 115, 101, 115, 115, 105, 111, 110, 115>>

\* "search_sessions"
n_search_sessions ==
    <<115, 101, 97, 114, 99, 104, 95, 115, 101, 115, 115, 105, 111, 110, 115>>

\* "get_session"
n_get_session == <<103, 101, 116, 95, 115, 101, 115, 115, 105, 111, 110>>

\* "get_session_context"
n_get_session_context ==
    <<103, 101, 116, 95, 115, 101, 115, 115, 105, 111, 110, 95, 99, 111, 110, 116,
      101, 120, 116>>

DefaultListLimit == 20

DefaultSearchLimit == 10

ParseErrorCode == -32700

MethodNotFoundCode == -32601

\* the tools the server offers, each with the arguments it requires
get_tools ==
    <<[name |-> n_list_sessions, required |-> {}],
      [name |-> n_search_sessions, required |-> {"query"}],
      [name |-> n_get_session, required |-> {"session_id"}],
      [name |-> n_get_session_context, required |-> {"session_id"}]>>

\* the result of initialize; the version is the package's
InitializeResult ==
    [protocolVersion |-> "2024-11-05",
     capabilities |-> [tools |-> [listChanged |-> FALSE]],
     serverInfo |-> [name |-> "claude-code-mcp", version |-> "CARGO_PKG_VERSION"]]

\* the arguments of a call without arguments: json!({})
no_arguments == [limit |-> None, query |-> None, session_id |-> None]

\* the params of a request without params: json!({})
no_params == [name |-> None, arguments |-> None]

\* chrono's Serialize for DateTime<Utc>: the RFC 3339 form ending in "Z"
serialize_datetime(t) == SubSeq(to_rfc3339(t), 1, Len(to_rfc3339(t)) - 6) \o <<90>>

\* json!({"role": .., "content": .., "timestamp": ..}) of a message
format_message(m) ==
    [role |-> m.role, content |-> m.content,
     timestamp |-> IF m.timestamp.some THEN Some(serialize_datetime(m.timestamp.v))
                   ELSE None]

\* json!({"id": .., "project_path": .., "messages": ..}) of a session
format_session(session) ==
    [id |-> session.id, project_path |-> session.project_path,
     messages |-> [i \in 1..Len(session.messages) |-> format_message(session.messages[i])]]

\* the tool result of what list_sessions or search_sessions returned
listing_result(listed, failure) ==
    IF listed.ok THEN ToolResult_text(to_string_pretty(listed.v))
    ELSE ToolResult_error(format(failure, listed.e))

\* the tool result of what get_session returned
session_result(got, session_id) ==
    IF ~got.ok THEN ToolResult_error(format("Failed to get session: {}", got.e))
    ELSE IF ~got.v.some THEN ToolResult_error(format("Session not found: {}", session_id))
    ELSE ToolResult_text(to_string_pretty(format_session(got.v.v)))

\* the tool result of what get_session_context returned
context_result(context, session_id) ==
    IF ~context.ok
    THEN ToolResult_error(format("Failed to get session context: {}", context.e))
    ELSE IF ~context.v.some
    THEN ToolResult_error(format("Session not found: {}", session_id))
    ELSE ToolResult_text(to_string_pretty(context.v.v))

\* the "search_sessions" arm without the check of the query
call_search_sessions_unchecked(r, fs, query, limit) ==
    listing_result(search_sessions(r, fs, query, limit), "Failed to search sessions: {}")

\* the "search_sessions" arm, once query and limit are read
call_search_sessions(r, fs, query, limit) ==
    IF query = <<>> THEN ToolResult_error(format("Query parameter is required", <<>>))
    ELSE listing_result(search_sessions(r, fs, query, limit),
                        "Failed to search sessions: {}")

\* the "get_session" arm, once session_id is read
call_get_session(r, fs, session_id) ==
    IF session_id = <<>>
    THEN ToolResult_error(format("session_id parameter is required", <<>>))
    ELSE session_result(get_session(r, fs, session_id), session_id)

\* the "get_session_context" arm, once session_id is read
call_get_session_context(r, fs, session_id, order) ==
    IF session_id = <<>>
    THEN ToolResult_error(format("session_id parameter is required", <<>>))
    ELSE context_result(get_session_context(r, fs, session_id, order), session_id)

\* match name { .. } of handle_tool_call, with the store built
call_tool(name, arguments, r, fs, order) ==
    IF name = n_list_sessions
    THEN listing_result(list_sessions(r, fs, unwrap_or(as_u64(arguments.limit),
                                                       DefaultListLimit)),
                        "Failed to list sessions: {}")
    ELSE IF name = n_search_sessions
    THEN call_search_sessions(r, fs, unwrap_or(as_str(arguments.query), <<>>),
                              unwrap_or(as_u64(arguments.limit), DefaultSearchLimit))
    ELSE IF name = n_get_session
    THEN call_get_session(r, fs, unwrap_or(as_str(arguments.session_id), <<>>))
    ELSE IF name = n_get_session_context
    THEN call_get_session_context(r, fs, unwrap_or(as_str(arguments.session_id), <<>>),
                                  order)
    ELSE ToolResult_error(format("Unknown tool: {}", name))

\* handle_tool_call: the store is built before the tool is looked at
handle_tool_call(name, arguments, r, fs, order) ==
    IF ~SessionStore_new(r).ok
    THEN ToolResult_error(format("Failed to initialize session store: {}",
                                 SessionStore_new(r).e))
    ELSE call_tool(name, arguments, r, fs, order)

\* the "tools/call" arm of handle_request, once params are read
tools_call(id, params, r, fs, order) ==
    JsonRpcResponse_success(id,
        handle_tool_call(unwrap_or(as_str(params.name), <<>>),
                         unwrap_or(params.arguments, no_arguments), r, fs, order))

handle_request(request, r, fs, order) ==
    IF request.method = m_initialize
    THEN JsonRpcResponse_success(request.id, InitializeResult)
    ELSE IF request.method \in {m_notifications_initialized, m_initialized}
    THEN [jsonrpc |-> v_2_0, id |-> JNull, result |-> None, error |-> None]
    ELSE IF request.method = m_tools_list
    THEN JsonRpcResponse_success(request.id, [tools |-> get_tools])
    ELSE IF request.method = m_tools_call
    THEN tools_call(request.id, unwrap_or(request.params, no_params), r, fs, order)
    ELSE JsonRpcResponse_error(request.id, MethodNotFoundCode,
                               format("Method not found: {}", request.method))


\* a line holding a JSON object with these members, each present or not
RequestLine(jsonrpc, id, method, params) ==
    [kind |-> "json", jsonrpc |-> jsonrpc, id |-> id, method |-> method,
     params |-> params]

\* serde_json::from_str::<JsonRpcRequest>: jsonrpc and method are required
\* strings, id defaults to null and params to none
from_str(line) ==
    IF line.kind = "json" /\ as_str(line.jsonrpc).some /\ as_str(line.method).some
    THEN Ok([jsonrpc |-> line.jsonrpc.v.s, id |-> unwrap_or(line.id, JNull),
             method |-> line.method.v.s, params |-> line.params])
    ELSE Err("ParseError")

\* serde_json::to_string(&response): result and error are members of the
\* line only when they are present
to_string(response) ==
    (IF response.result.some THEN "result" :> response.result.v ELSE <<>>)
        @@ (IF response.error.some THEN "error" :> response.error.v ELSE <<>>)
        @@ [jsonrpc |-> response.jsonrpc, id |-> response.id]

\* whether the main loop takes the request for a notification
is_notification(request) ==
    is_null(request.id) \/ starts_with(request.method, m_notifications_prefix)

\* the Ok arm of the main loop: the response is written unless the request
\* is taken for a notification or the response is empty
answer(out, request, response) ==
    IF is_notification(request) THEN out
    ELSE IF ~response.result.some /\ ~response.error.some THEN out
    ELSE Append(out, to_string(response))

\* the Err arm of the main loop
parse_error(out, e) ==
    Append(out, to_string(JsonRpcResponse_error(JNull, ParseErrorCode,
                                                format("Parse error: {}", e))))

\* the body of the main loop for a line that is not blank
serve(out, parsed, r, fs, order) ==
    IF parsed.ok THEN answer(out, parsed.v, handle_request(parsed.v, r, fs, order))
    ELSE parse_error(out, parsed.e)

\* one turn of the main loop: the next line is read and, unless it is blank,
\* handled; order is the seed of the hash map a tool call may build
NextLine ==
    /\ line_no < Len(stdin)
    /\ \E order \in 0..(HashOrders - 1) :
          stdout' = IF stdin[line_no + 1].kind = "blank" THEN stdout
                    ELSE serve(stdout, from_str(stdin[line_no + 1]), root, files, order)
    /\ line_no' = line_no + 1
    /\ UNCHANGED <<root, files, last, stdin>>

(***************************************************************************)
(* The requests of a client                                                *)
(***************************************************************************)
\* "string-id-123"
id_req == <<115, 116, 114, 105, 110, 103, 45, 105, 100, 45, 49, 50, 51>>

\* "unknown/method"
m_unknown == <<117, 110, 107, 110, 111, 119, 110, 47, 109, 101, 116, 104, 111, 100>>

\* "notifications/progress"
m_notifications_other ==
    <<110, 111, 116, 105, 102, 105, 99, 97, 116, 105, 111, 110, 115, 47, 112, 114,
      111, 103, 114, 101, 115, 115>>

\* "delete_session"
n_other == <<100, 101, 108, 101, 116, 101, 95, 115, 101, 115, 115, 105, 111, 110>>

Request(id, method, params) ==
    RequestLine(Some(JStr(v_2_0)), id, Some(JStr(method)), params)

Call(id, name, arguments) ==
    Request(Some(id), m_tools_call,
            Some([name |-> Some(JStr(name)), arguments |-> Some(arguments)]))

Args(limit, query, session_id) ==
    [limit |-> limit, query |-> query, session_id |-> session_id]

ForId(session_id) == Args(None, None, Some(session_id))

RequestCatalogue ==
    {InvalidLine, BlankLine,
     RequestLine(Some(JStr(v_2_0)), Some(JNum(13)), None, None),
     Request(Some(JNum(1)), m_initialize, Some(no_params)),
     Request(Some(JStr(id_req)), m_tools_list, None),
     Request(Some(JNull), m_tools_list, None),
     Request(None, m_tools_list, None),
     Request(Some(JNum(11)), m_notifications_initialized, None),
     Request(None, m_notifications_initialized, None),
     Request(Some(JNum(16)), m_initialized, None),
     Request(Some(JNum(12)), m_unknown, None),
     Request(Some(JNull), m_unknown, None),
     Request(Some(JNum(17)), m_notifications_other, None),
     Request(Some(JNum(15)), m_tools_call, None),
     Call(JNum(3), n_list_sessions, Args(Some(JNum(1)), None, None)),
     Call(JNum(4), n_search_sessions, no_arguments),
     Call(JNum(5), n_search_sessions, Args(None, Some(JStr(<<>>)), None)),
     Call(JNum(6), n_search_sessions, Args(Some(JStr(q_hi)), Some(JStr(q_hi)), None)),
     Call(JNum(7), n_get_session, ForId(JNum(7))),
     Call(JNum(8), n_get_session, ForId(JStr(id_s1))),
     Call(JNum(9), n_get_session_context, ForId(JStr(<<>>))),
     Call(JNum(10), n_get_session_context, ForId(JStr(id_s1))),
     Call(JNum(14), n_other, no_arguments)}

MaxRequests == 2

\* any lines on standard input, against a storage with or without ~/.claude
InitServer ==
    /\ root \in {"missing", "ok"}
    /\ files = IF root = "ok" THEN <<fS1, fA>> ELSE <<>>
    /\ last = NoCall
    /\ stdin \in UNION {[1..n -> RequestCatalogue] : n \in 0..MaxRequests}
    /\ line_no = 0
    /\ stdout = <<>>

SpecServer == InitServer /\ [][NextLine]_vars

(***************************************************************************)
(* Properties                                                              *)
(***************************************************************************)
\* whether a file yields a session, and the session it yields
parses(f) == is_session(try_parse_jsonl_session(f))

session_of(f) == try_parse_jsonl_session(f).v.v

\* the files list_sessions and search_sessions take a session from
scan_hit(f) == is_session_file(f) /\ parses(f)

\* the sessions a scan of the storage finds, in walk order
Scanned == IF projects_dir_exists(root) THEN SelectSeq(walk(files), scan_hit) ELSE <<>>

ScannedSessions == {session_of(Scanned[i]) : i \in 1..Len(Scanned)}

\* the operation the last tool call ran on a store it could construct
Listed == last.op = "list_sessions" /\ last.store.ok

Searched == last.op = "search_sessions" /\ last.store.ok /\ last.query # <<>>

Got == last.op = "get_session" /\ last.store.ok /\ last.session_id # <<>>

GotContext == last.op = "get_session_context" /\ last.store.ok /\ last.session_id # <<>>

\* the scanned sessions' updated_at instants, each with the session's summary
ScannedUpdates ==
    {[at |-> a.updated_at, summary |-> session_to_summary(a)] : a \in ScannedSessions}

\* the order of the instants of time: an absent one counts as earliest
EarlierThan(a, b) ==
    IF ~a.some THEN b.some
    ELSE b.some /\ a.v < b.v

\* whether the entries of a listing are in the order of the instants they
\* stand for: no entry's session was updated earlier than the session of the
\* entry after it, an absent updated_at counting as earliest
ByRecency(listing, updates) ==
    \A i \in 1..(Len(listing) - 1) :
        \A x \in {u \in updates : u.summary = listing[i]},
           y \in {u \in updates : u.summary = listing[i + 1]} :
            ~EarlierThan(x.at, y.at)

\* C1: the result of list_sessions is sorted non-increasing by updated_at,
\* and every summary without updated_at comes after every one that has it.
C1_ListedByRecency == Listed => ByRecency(last.result.v, ScannedUpdates)

C1_Witness ==
    /\ Listed
    /\ Len(last.result.v) >= 2
    /\ \E u \in ScannedUpdates : u.at.some /\ year_of(u.at.v) > 9999

\* the summaries of the scanned sessions, in walk order
ScannedSummaries ==
    [i \in 1..Len(Scanned) |-> session_to_summary(session_of(Scanned[i]))]

\* the scanned sessions the matcher gives a score for the query, with it
ScannedMatches(query) ==
    LET every == [i \in 1..Len(Scanned) |->
                     [score |-> fuzzy_match(full_text(session_of(Scanned[i])), query),
                      summary |-> session_to_summary(session_of(Scanned[i]))]]
        matched == SelectSeq(every, LAMBDA x : x.score.some)
    IN  [i \in 1..Len(matched) |->
            [score |-> matched[i].score.v, summary |-> matched[i].summary]]

\* result is the first entries of ordered, as many as the cap allows
FirstOf(result, ordered, cap) ==
    /\ Len(result) <= cap
    /\ Len(result) = Min(cap, Len(ordered))
    /\ result = SubSeq(ordered, 1, Len(result))

\* C2: list_sessions returns at most min(limit, 100) entries and
\* search_sessions at most min(limit, 50); the entries kept are the first
\* ones of the sorted order.
C2_ResultCaps ==
    /\ Listed =>
          FirstOf(last.result.v, sort_by_recency(Eager(ScannedSummaries)),
                  Min(last.limit, 100))
    /\ Searched =>
          LET ordered == sort_by_score(Eager(ScannedMatches(last.query)))
          IN  FirstOf(last.result.v, [i \in 1..Len(ordered) |-> ordered[i].summary],
                      Min(last.limit, 50))

C2_Witness ==
    /\ Listed
    /\ last.limit > 100
    /\ Len(Scanned) > 100
    /\ Len(last.result.v) = 100

\* the sessions of the session files a scan by id looks at
JsonlSessions ==
    IF ~projects_dir_exists(root) THEN {}
    ELSE LET hits == SelectSeq(walk(files), LAMBDA f : is_jsonl_file(f) /\ parses(f))
         IN  {session_of(hits[i]) : i \in 1..Len(hits)}

\* C3: get_session(x) returns a session exactly when some session file
\* parses to a session whose id is x, and the session returned has id x.
C3_GetById ==
    Got =>
        /\ last.result.ok
        /\ last.result.v.some <=> (\E session \in JsonlSessions : session.id = last.session_id)
        /\ last.result.v.some => last.result.v.v.id = last.session_id

\* C4: with the storage root present and no session of the requested id,
\* get_session and get_session_context return the empty optional; they
\* return an error only when the store could not be constructed.
C4_UnknownIdNotFound ==
    (last.op \in {"get_session", "get_session_context"} /\ last.session_id # <<>>) =>
        /\ ~last.result.ok <=> ~last.store.ok
        /\ (last.store.ok /\ ~\E session \in JsonlSessions : session.id = last.session_id)
              => last.result = Ok(None)

\* the storage without the files that cannot be read or yield no session
WithoutBadFiles == SelectSeq(files, parses)

\* C5: list_sessions and search_sessions succeed whatever files are in the
\* storage, and return what they return for the storage without the files
\* that cannot be read and the files that yield no session.
C5_ScanSkipsBadFiles ==
    /\ Listed => last.result = list_sessions(root, WithoutBadFiles, last.limit)
    /\ Searched =>
          last.result = search_sessions(root, WithoutBadFiles, last.query, last.limit)
    /\ (Listed \/ Searched) => last.result.ok

C5_Witness ==
    /\ Listed
    /\ Len(last.result.v) > 0
    /\ \E i \in 1..Len(files) :
          /\ within_depth(files[i]) /\ is_jsonl_file(files[i]) /\ ~is_agent_file(files[i])
          /\ ~try_parse_jsonl_session(files[i]).ok
          /\ \E j \in (i + 1)..Len(files) : scan_hit(files[j])

\* the file without the lines that are not JSON
WithoutInvalidLines(f) ==
    [f EXCEPT !.lines = IF f.read = "ok" THEN SelectSeq(f.lines, LAMBDA l : l.kind # "invalid")
                        ELSE f.lines]

FilesWithoutInvalidLines == [i \in 1..Len(files) |-> WithoutInvalidLines(files[i])]

\* C6: a line that is not a structured record changes nothing: what
\* get_session and list_sessions return (messages, id, cwd, timestamps) is
\* what they return for the same files with those lines deleted.
C6_InvalidLinesSkipped ==
    /\ Got => last.result = get_session(root, FilesWithoutInvalidLines, last.session_id)
    /\ Listed => last.result = list_sessions(root, FilesWithoutInvalidLines, last.limit)

C6_Witness ==
    /\ Got
    /\ last.result.v.some
    /\ \E i \in 1..Len(files) :
          /\ path_of(files[i]) = last.result.v.v.file_path
          /\ \E k \in 1..Len(files[i].lines) :
                /\ files[i].lines[k].kind = "invalid"
                /\ \E n \in (k + 1)..Len(files[i].lines) : files[i].lines[n].kind = "json"

\* the content a line contributes as a message, if any
LineContent(line) ==
    IF /\ line.kind = "json"
       /\ line.type \in {Some(s_user), Some(s_assistant)}
       /\ line.message.some
       /\ extract_message_content(line.message.v) # <<>>
    THEN Some(extract_message_content(line.message.v))
    ELSE None

\* the contents the lines of a file contribute, in line order
FileContents(f) ==
    LET got == SelectSeq([k \in 1..Len(f.lines) |-> LineContent(f.lines[k])], is_some)
    IN  [k \in 1..Len(got) |-> got[k].v]

\* the file get_session(session_id) reads, if any
FileFor(session_id) ==
    LET hits == SelectSeq(walk(files), LAMBDA f :
                    is_jsonl_file(f) /\ file_stem(path_of(f)) = Some(session_id))
    IN  IF Len(hits) = 0 \/ ~projects_dir_exists(root) THEN None ELSE Some(hits[1])

\* C7: a session returned has at least one message, none of its messages
\* is empty, and they are in the order of the file's lines; a file whose
\* lines yield no message yields no session, which is not an error.
C7_SessionsHaveMessages ==
    Got =>
        /\ last.result.ok
        /\ last.result.v.some =>
              LET session == last.result.v.v
              IN  /\ Len(session.messages) >= 1
                  /\ \A k \in 1..Len(session.messages) : session.messages[k].content # <<>>
                  /\ \E i \in 1..Len(files) :
                        /\ path_of(files[i]) = session.file_path
                        /\ [k \in 1..Len(session.messages) |-> session.messages[k].content]
                              = FileContents(files[i])
        /\ \A i \in 1..Len(files) :
              (FileFor(last.session_id) = Some(files[i])
                  /\ read_to_string(files[i]).ok /\ FileContents(files[i]) = <<>>)
              => (last.result = Ok(None) /\ try_parse_jsonl_session(files[i]) = Ok(None))

C7_Witness ==
    /\ Got
    /\ last.result.v.some
    /\ Len(last.result.v.v.messages) = 1
    /\ \E i \in 1..Len(files) :
          /\ path_of(files[i]) = last.result.v.v.file_path
          /\ Len(files[i].lines) = 2
          /\ files[i].lines[1].kind = "json"
          /\ files[i].lines[1].type = Some(s_assistant)
          /\ files[i].lines[1].message.some
          /\ extract_message_content(files[i].lines[1].message.v) = <<>>

\* the first message of the session whose role is one of roles, if any
FirstWithRole(session, roles) ==
    LET hits == {k \in 1..Len(session.messages) : session.messages[k].role \in roles}
    IN  IF hits = {} THEN None ELSE Some(session.messages[SetMin(hits)])

\* text is content cut to at most n characters, the ellipsis included, and
\* has the ellipsis exactly when content was cut
CutTo(text, content, n) ==
    /\ Len(text) <= n
    /\ Len(content) <= n => text = content
    /\ Len(content) > n =>
          /\ Len(text) >= 3
          /\ SubSeq(text, Len(text) - 2, Len(text)) = s_ellipsis
          /\ SubSeq(text, 1, Len(text) - 3) = SubSeq(content, 1, Len(text) - 3)

\* C8: the preview of every summary has at most 200 characters, is the text
\* of the first user-authored message, and ends with the ellipsis exactly
\* when that message was truncated.
C8_PreviewWithinLimit ==
    (Listed \/ Searched) =>
        \A session \in ScannedSessions :
            \A k \in 1..Len(last.result.v) :
                (last.result.v[k].id = session.id
                    /\ FirstWithRole(session, {s_user}).some)
                => CutTo(last.result.v[k].preview,
                         FirstWithRole(session, {s_user}).v.content, 200)

\* C9: initial_request is the content of the first message whose role is
\* "user" or "human", cut to 500 characters, with the ellipsis added only
\* if the content is longer than 500 characters.
C9_InitialRequest ==
    (GotContext /\ last.result.v.some) =>
        \A session \in JsonlSessions :
            session.id = last.result.v.v.id =>
                LET first == FirstWithRole(session, {s_user, s_human})
                    text == last.result.v.v.initial_request
                IN  /\ text.some <=> first.some
                    /\ text.some =>
                          /\ Len(first.v.content) <= 500 => text.v = first.v.content
                          /\ Len(first.v.content) > 500 =>
                                text.v = SubSeq(first.v.content, 1, 500) \o s_ellipsis

\* sorted in lexical order, without duplicates
StrictlySorted(s) == \A i, j \in 1..Len(s) : i < j => str_lt(s[i], s[j])

\* C10: a SessionContext has at most 15 key_terms and at most 20
\* files_mentioned, and files_mentioned is duplicate-free and sorted.
C10_ContextListsBounded ==
    (GotContext /\ last.result.v.some) =>
        /\ Len(last.result.v.v.key_terms) <= 15
        /\ Len(last.result.v.v.files_mentioned) <= 20
        /\ StrictlySorted(last.result.v.v.files_mentioned)

C10_Witness ==
    /\ GotContext
    /\ last.result.v.some
    /\ Len(last.result.v.v.key_terms) = 15
    /\ Len(last.result.v.v.files_mentioned) = 20
    /\ \E session \in JsonlSessions :
          /\ session.id = last.result.v.v.id
          /\ Len(extract_file_paths_uncapped(session)) > 20

\* C11: running a retrieval operation again with the same arguments on the
\* unchanged storage gives the same output: what the call returned is what
\* any other run of it returns, key_terms with their content and order and
\* the order of entries with equal sort keys included.
C11_RerunSameOutput ==
    /\ Listed => last.result = list_sessions(root, files, last.limit)
    /\ Searched => last.result = search_sessions(root, files, last.query, last.limit)
    /\ Got => last.result = get_session(root, files, last.session_id)
    /\ GotContext =>
          \A order \in 0..(HashOrders - 1) :
              last.result = get_session_context(root, files, last.session_id, order)

\* the line read by the step is a tools/call request, with an id that is
\* not null, of one of the tools named
CallOf(line, names) ==
    /\ line.kind = "json"
    /\ line.jsonrpc = Some(JStr(v_2_0))
    /\ line.method = Some(JStr(m_tools_call))
    /\ line.id.some /\ line.id.v.k \in {"num", "str"}
    /\ line.params.some
    /\ \E name \in names : line.params.v.name = Some(JStr(name))
    /\ line.params.v.arguments.some

\* an argument that is missing or the empty string
MissingOrEmpty(argument) == ~argument.some \/ argument = Some(JStr(<<>>))

\* the step reads a call of search_sessions without query, or of get_session
\* or get_session_context without session_id
ReadsCallWithoutArgument ==
    /\ line_no' = line_no + 1
    /\ \/ /\ CallOf(stdin[line_no'], {n_search_sessions})
          /\ MissingOrEmpty(stdin[line_no'].params.v.arguments.v.query)
       \/ /\ CallOf(stdin[line_no'], {n_get_session, n_get_session_context})
          /\ MissingOrEmpty(stdin[line_no'].params.v.arguments.v.session_id)

\* a response whose result is a tool result flagged isError, with a message
\* saying that a parameter is required
SaysParameterRequired(response) ==
    /\ "result" \in DOMAIN response
    /\ response.result.is_error = Some(TRUE)
    /\ response.result.content[1].text.fmt
          \in {"Query parameter is required", "session_id parameter is required"}

SaysStoreFailed(response) ==
    /\ "result" \in DOMAIN response
    /\ response.result.is_error = Some(TRUE)
    /\ response.result.content[1].text.fmt = "Failed to initialize session store: {}"

PlainRequest(line) ==
    /\ line.kind = "json"
    /\ line.jsonrpc = Some(JStr(v_2_0))
    /\ line.id.some /\ line.id.v.k \in {"num", "str"}
    /\ line.method \in {Some(JStr(m_initialize)), Some(JStr(m_tools_list)),
                        Some(JStr(m_tools_call))}

\* C13: as long as every line read is a request with a non-null id (number
\* or string) and the method initialize, tools/list or tools/call, the
\* server has written exactly one response per request read, in the order
\* of the requests, each with the id of its request and with a result.
C13_OneResponsePerRequest ==
    (\A i \in 1..line_no : PlainRequest(stdin[i])) =>
        /\ Len(stdout) = line_no
        /\ \A i \in 1..line_no :
              /\ stdout[i].id = stdin[i].id.v
              /\ stdout[i].jsonrpc = v_2_0
              /\ "result" \in DOMAIN stdout[i]
              /\ "error" \notin DOMAIN stdout[i]

C13_Witness ==
    /\ line_no = 2
    /\ PlainRequest(stdin[1])
    /\ PlainRequest(stdin[2])
    /\ stdin[1].id.v.k = "str"
    /\ stdin[2].id.v.k = "num"
    /\ stdin[2].method = Some(JStr(m_tools_call))
    /\ Len(stdout) = 2
    /\ stdout[1].id = stdin[1].id.v
    /\ stdout[2].id = stdin[2].id.v

\* the step reads a request of this method that carries an id of one of
\* these kinds
ReadsRequest(methods, kinds) ==
    /\ line_no' = line_no + 1
    /\ stdin[line_no'].kind = "json"
    /\ stdin[line_no'].jsonrpc = Some(JStr(v_2_0))
    /\ stdin[line_no'].id.some /\ stdin[line_no'].id.v.k \in kinds
    /\ stdin[line_no'].method.some /\ stdin[line_no'].method.v.k = "str"
    /\ stdin[line_no'].method.v.s \in methods

\* the step writes exactly one line
WritesOne == Len(stdout') = Len(stdout) + 1 /\ SubSeq(stdout', 1, Len(stdout)) = stdout

\* C14: a tools/list request whose id is null receives a response whose id
\* is null and whose result carries the tools array.
C14_NullIdListAnswered ==
    [][ReadsRequest({m_tools_list}, {"null"}) =>
          /\ WritesOne
          /\ stdout'[Len(stdout')].id = JNull
          /\ "result" \in DOMAIN stdout'[Len(stdout')]
          /\ "tools" \in DOMAIN stdout'[Len(stdout')].result]_vars

\* C15: a request with method notifications/initialized that carries an id
\* receives a response line with jsonrpc "2.0" and no error member.
C15_NotificationWithIdAnswered ==
    [][ReadsRequest({m_notifications_initialized}, {"num", "str"}) =>
          /\ WritesOne
          /\ stdout'[Len(stdout')].jsonrpc = v_2_0
          /\ "error" \notin DOMAIN stdout'[Len(stdout')]]_vars

\* the methods handle_request knows
KnownMethods ==
    {m_initialize, m_notifications_initialized, m_initialized, m_tools_list, m_tools_call}

\* the step reads a line that is not blank and is not a JSON-RPC request
ReadsInvalidLine ==
    /\ line_no' = line_no + 1
    /\ \/ stdin[line_no'].kind = "invalid"
       \/ /\ stdin[line_no'].kind = "json"
          /\ ~(stdin[line_no'].jsonrpc.some /\ stdin[line_no'].method.some)

\* the step reads a request that carries an id and whose method is unknown
ReadsUnknownMethod ==
    /\ line_no' = line_no + 1
    /\ stdin[line_no'].kind = "json"
    /\ stdin[line_no'].jsonrpc = Some(JStr(v_2_0))
    /\ stdin[line_no'].id.some
    /\ stdin[line_no'].method.some /\ stdin[line_no'].method.v.k = "str"
    /\ stdin[line_no'].method.v.s \notin KnownMethods

\* the step writes exactly one line, an error response of this code and id
WritesError(code, id) ==
    /\ WritesOne
    /\ "error" \in DOMAIN stdout'[Len(stdout')]
    /\ "result" \notin DOMAIN stdout'[Len(stdout')]
    /\ stdout'[Len(stdout')].error.code = code
    /\ stdout'[Len(stdout')].id = id

\* C16: a line that is not a valid JSON-RPC request produces exactly one
\* error response with code -32700 and null id, a request with an unknown
\* method produces an error response with code -32601 and the request's id,
\* and in both cases the server reads on: the lines that follow are still
\* to be handled.
C16_ErrorsAnsweredAndLoopGoesOn ==
    [][/\ ReadsInvalidLine => WritesError(ParseErrorCode, JNull)
       /\ ReadsUnknownMethod => WritesError(MethodNotFoundCode, stdin[line_no'].id.v)
       /\ (ReadsInvalidLine \/ ReadsUnknownMethod) => stdin' = stdin]_vars

\* the suffix of a tool line: " on <file_path>" if the input has a file
\* path, else ": <first 50 characters of command>" if it has a command,
\* else nothing
ToolSuffix(input) ==
    IF ~input.some THEN <<>>
    ELSE IF input.v.file_path.some THEN <<32, 111, 110, 32>> \o input.v.file_path.v
    ELSE IF input.v.command.some
    THEN <<58, 32>> \o SubSeq(input.v.command.v, 1, Min(50, Len(input.v.command.v)))
    ELSE <<>>

\* the line a block contributes: its text if it has one, else
\* "[Tool: <name><suffix>]" if it is a named tool_use block; none otherwise
BlockLine(block) ==
    IF block.text.some THEN <<block.text.v>>
    ELSE IF block.type = Some(s_tool_use) /\ block.name.some
    THEN <<<<91, 84, 111, 111, 108, 58, 32>> \o block.name.v \o ToolSuffix(block.input)
             \o <<93>>>>
    ELSE <<>>

\* the lines of the blocks from position i on, in block order
RECURSIVE BlockLines(_, _)
BlockLines(blocks, i) ==
    IF i > Len(blocks) THEN <<>> ELSE BlockLine(blocks[i]) \o BlockLines(blocks, i + 1)

\* lines joined by newlines
RECURSIVE Joined(_)
Joined(lines) ==
    IF Len(lines) = 0 THEN <<>>
    ELSE IF Len(lines) = 1 THEN lines[1]
    ELSE lines[1] \o <<10>> \o Joined(Tail(lines))

\* the content of a payload: a string verbatim, the joined lines of a block
\* sequence, and the empty string for anything else
PayloadContent(payload) ==
    IF payload.k = "str" THEN payload.s
    ELSE IF payload.k = "arr" THEN Joined(BlockLines(payload.items, 1))
    ELSE <<>>

\* the contents of the conversational records of a file that have a
\* message, in line order
PayloadContents(f) ==
    LET with == SelectSeq(f.lines, LAMBDA line :
                    /\ line.kind = "json"
                    /\ line.type \in {Some(s_user), Some(s_assistant)}
                    /\ line.message.some)
    IN  [k \in 1..Len(with) |-> PayloadContent(with[k].message.v.content)]

\* C17: the content extracted from a message is the string payload verbatim;
\* for a block sequence it is, in block order and joined by newlines, the
\* text of each block that has one, else "[Tool: <name><suffix>]" for a
\* tool_use block, every other block being skipped; a missing or
\* unrecognized payload gives the empty string.  The messages of a session
\* returned carry these contents, the empty ones left out.
C17_ContentExtraction ==
    (Got /\ last.result.v.some) =>
        [k \in 1..Len(last.result.v.v.messages) |-> last.result.v.v.messages[k].content]
            = SelectSeq(PayloadContents(files[1]), LAMBDA content : content # <<>>)

C17_Witness ==
    /\ Got
    /\ last.result.v.some
    /\ files[1].lines = <<lineBlocks, lineLongCommand>>
    /\ Len(last.result.v.v.messages) = 2
    /\ Len(last.result.v.v.messages[2].content) = Len(t_bash) + 60

\* result is component with its dashes turned into slashes
DashesToSlashes(component, result) ==
    /\ Len(result) = Len(component)
    /\ \A i \in 1..Len(component) :
          result[i] = IF component[i] = 45 THEN 47 ELSE component[i]

\* the project path derived from a path: from the component that follows
\* "projects", if there is one
DerivedFrom(path, project_path) ==
    LET at == {i \in 1..Len(path) : path[i] = s_projects}
    IN  IF at = {} \/ SetMin(at) = Len(path) THEN ~project_path.some
        ELSE /\ project_path.some
             /\ IF path[SetMin(at) + 1] # <<>> /\ path[SetMin(at) + 1][1] = 45
                THEN DashesToSlashes(path[SetMin(at) + 1], project_path.v)
                ELSE project_path.v = path[SetMin(at) + 1]

\* C18: the project path of a session is derived from the path component
\* that follows "projects" in the path of its file: that component with its
\* dashes turned into slashes when it starts with a dash, the component
\* unchanged otherwise, and absent when nothing follows "projects".
C18_ProjectPath ==
    /\ (Got /\ last.result.v.some) =>
          DerivedFrom(last.result.v.v.file_path, last.result.v.v.project_path)
    /\ Listed =>
          \A k \in 1..Len(last.result.v) :
              \E i \in 1..Len(files) :
                  /\ scan_hit(files[i])
                  /\ session_to_summary(session_of(files[i])) = last.result.v[k]
                  /\ DerivedFrom(path_of(files[i]), last.result.v[k].project_path)

C18_Witness ==
    /\ Listed
    /\ Len(last.result.v) = 2
    /\ \E k \in 1..2 : last.result.v[k].project_path = Some(<<47, 119, 47, 112>>)
    /\ \E k \in 1..2 : last.result.v[k].project_path = Some(dir_q)
    /\ \E i \in 1..2 : files[i].rel[1] = dir_p
    /\ \E i \in 1..2 : files[i].rel[1] = dir_q

\* the storage with the lines of invalid encoding deleted from every file
FilesWithoutEncodingLines ==
    [i \in 1..Len(files) |->
        [files[i] EXCEPT !.lines = SelectSeq(@, LAMBDA l : l.kind # "invalid_utf8")]]

\* C19: a line with invalid encoding is skipped and is not fatal to its
\* file: a session file that holds such a line together with valid
\* user/assistant lines still yields a session with the messages of the
\* valid lines, which is what the file yields with that line deleted.
C19_InvalidEncodingSkipped ==
    /\ Got => last.result = get_session(root, FilesWithoutEncodingLines, last.session_id)
    /\ Listed => last.result = list_sessions(root, FilesWithoutEncodingLines, last.limit)

\* the name of a directory entry
NameOf(f) == f.rel[Len(f.rel)]

\* a name that starts with "agent-"
AgentName(name) == Len(name) >= 6 /\ SubSeq(name, 1, 6) = s_agent_prefix

\* a name that ends with ".jsonl"
JsonlName(name) ==
    Len(name) > 6 /\ SubSeq(name, Len(name) - 5, Len(name)) = <<46>> \o s_jsonl

\* the storage without the entries named agent-* and without those that
\* are not named *.jsonl
SessionLogsOnly ==
    SelectSeq(files, LAMBDA f : JsonlName(NameOf(f)) /\ ~AgentName(NameOf(f)))

\* C20: no retrieval operation returns a session parsed from a file whose
\* name starts with "agent-" or from a file without the .jsonl extension:
\* a session returned by get_session comes from no such file, and every
\* operation returns what it returns on the storage without such files.
C20_NoSubordinateSessions ==
    /\ Listed => last.result = list_sessions(root, SessionLogsOnly, last.limit)
    /\ Searched =>
          last.result = search_sessions(root, SessionLogsOnly, last.query, last.limit)
    /\ Got =>
          /\ last.result = get_session(root, SessionLogsOnly, last.session_id)
          /\ last.result.v.some =>
                LET name == last.result.v.v.file_path[Len(last.result.v.v.file_path)]
                IN  JsonlName(name) /\ ~AgentName(name)
    /\ GotContext =>
          \E order \in 0..(HashOrders - 1) :
              last.result
                  = get_session_context(root, SessionLogsOnly, last.session_id, order)

\* the positions of the lines of a file that are records carrying a
\* sessionId, whatever their type
WithSessionId(f) ==
    {k \in 1..Len(f.lines) : f.lines[k].kind = "json" /\ f.lines[k].sessionId.some}

\* the base name of a file: its name without the extension
BaseName(f) == SubSeq(NameOf(f), 1, Len(NameOf(f)) - 6)

\* C21: the id of a parsed session is the first sessionId found over the
\* lines of its file, in order and on any record type; when no line carries
\* one it is the base name of the file (the hash of the path is used only
\* when there is no base name, which no scanned file lacks).
C21_SessionIdentity ==
    (Got /\ last.result.v.some) =>
        last.result.v.v.id
            = IF WithSessionId(files[1]) # {}
              THEN files[1].lines[SetMin(WithSessionId(files[1]))].sessionId.v
              ELSE BaseName(files[1])

C21_Witness ==
    /\ Got
    /\ last.result.v.some
    /\ files[1].lines = <<lineSummary, lineUser>>
    /\ last.result.v.v.id = id_zz
    /\ Len(last.result.v.v.messages) = 1

\* the instants of the timestamps of a file's records that are dates,
\* whatever the type of the record
Timestamps(f) ==
    {f.lines[k].timestamp.v.t :
        k \in {n \in 1..Len(f.lines) :
                  /\ f.lines[n].kind = "json"
                  /\ f.lines[n].timestamp.some
                  /\ f.lines[n].timestamp.v.valid}}

\* C22: created_at of a parsed session is the minimum and updated_at the
\* maximum of the timestamps parsed over all lines of its file, whatever
\* the order and type of the lines, so created_at <= updated_at; when no
\* line carries a timestamp that parses, created_at is absent and
\* updated_at is the modification time of the file.
C22_TimestampBounds ==
    (Got /\ last.result.v.some) =>
        IF Timestamps(files[1]) = {}
        THEN /\ last.result.v.v.created_at = None
             /\ last.result.v.v.updated_at = files[1].mtime
        ELSE /\ last.result.v.v.created_at = Some(SetMin(Timestamps(files[1])))
             /\ last.result.v.v.updated_at = Some(SetMax(Timestamps(files[1])))
             /\ last.result.v.v.created_at.v <= last.result.v.v.updated_at.v

C22_Witness ==
    /\ Got
    /\ last.result.v.some
    /\ files[1].lines = <<lineUser, lineEmpty>>
    /\ last.result.v.v.created_at = Some(T2023)
    /\ last.result.v.v.updated_at = Some(T2024a)
    /\ Len(last.result.v.v.messages) = 1

\* the place of the i-th match in the order of non-increasing score in
\* which matches of equal score stay in discovery order
PlaceOf(matches, i) ==
    1 + Cardinality({j \in 1..Len(matches) :
                        \/ matches[j].score > matches[i].score
                        \/ matches[j].score = matches[i].score /\ j < i})

\* result holds the summaries of the n best matches, each at its place
BestOf(result, matches, n) ==
    /\ Len(result) = n
    /\ \A i \in 1..Len(matches) :
          PlaceOf(matches, i) <= n => result[PlaceOf(matches, i)] = matches[i].summary

\* C23: search_sessions returns exactly the sessions whose corpus gets a
\* score from the matcher for the query, ordered by non-increasing score
\* with sessions of equal score in discovery order; when no session
\* matches, the result is the empty sequence and not an error.
C23_SearchReturnsAllMatches ==
    Searched =>
        /\ last.result.ok
        /\ BestOf(last.result.v, ScannedMatches(last.query),
                  Len(ScannedMatches(last.query)))

\* C23 (amended): search_sessions returns the first min(limit, 50) of the
\* sessions whose corpus gets a score from the matcher for the query, taken
\* in the order of non-increasing score with sessions of equal score in
\* discovery order; when no session matches, the result is the empty
\* sequence and not an error.
C23_SearchReturnsBestMatches ==
    Searched =>
        /\ last.result.ok
        /\ BestOf(last.result.v, ScannedMatches(last.query),
                  Min(Len(ScannedMatches(last.query)), Min(last.limit, 50)))

C23_Witness ==
    /\ Searched
    /\ last.limit = 1
    /\ Len(last.result.v) = 1
    /\ Len(Scanned) = 2
    /\ Len(ScannedMatches(last.query)) = 2
    /\ ScannedMatches(last.query)[1].score < ScannedMatches(last.query)[2].score
    /\ last.result.v[1] = ScannedMatches(last.query)[2].summary

\* the records of a file, in line order
Records(f) == SelectSeq(f.lines, LAMBDA line : line.kind = "json")

\* a record whose top-level type is "user" or "assistant"
Conversational(record) == record.type \in {Some(s_user), Some(s_assistant)}

\* the role and content of the message a conversational record carries
MessageOf(record) ==
    [role |-> IF record.message.v.role.some THEN record.message.v.role.v
              ELSE record.type.v,
     content |-> PayloadContent(record.message.v.content)]

\* the messages the records of a file contribute, in line order: those of
\* the conversational records that carry a message whose content is not
\* empty
Contributed(f) ==
    LET carrying == SelectSeq(Records(f), LAMBDA record :
                        Conversational(record) /\ record.message.some)
    IN  SelectSeq([k \in 1..Len(carrying) |-> MessageOf(carrying[k])],
                  LAMBDA m : m.content # <<>>)

\* the first value of a field over the records of a file, of any type
FirstField(f, field) ==
    LET with == SelectSeq(Records(f), LAMBDA record : record[field].some)
    IN  IF Len(with) = 0 THEN None ELSE with[1][field]

\* C24: a record whose top-level type is neither "user" nor "assistant"
\* contributes no message, whatever payload it carries, but its sessionId,
\* cwd and timestamp count for the metadata of the session; a "user" or
\* "assistant" record contributes a message whose role is the role of the
\* nested message, or the record type when that role is missing, and is
\* dropped when its extracted content is empty.
C24_RecordTypes ==
    (Got /\ last.result.v.some) =>
        /\ [k \in 1..Len(last.result.v.v.messages) |->
               [role |-> last.result.v.v.messages[k].role,
                content |-> last.result.v.v.messages[k].content]]
              = Contributed(files[1])
        /\ last.result.v.v.cwd = FirstField(files[1], "cwd")
        /\ FirstField(files[1], "sessionId").some =>
              last.result.v.v.id = FirstField(files[1], "sessionId").v
        /\ Timestamps(files[1]) # {} =>
              /\ last.result.v.v.created_at = Some(SetMin(Timestamps(files[1])))
              /\ last.result.v.v.updated_at = Some(SetMax(Timestamps(files[1])))

C24_Witness ==
    /\ Got
    /\ last.result.v.some
    /\ files[1].lines = <<lineSummary, lineBare>>
    /\ Len(last.result.v.v.messages) = 1
    /\ last.result.v.v.messages[1].role = s_assistant
    /\ last.result.v.v.id = id_zz
    /\ last.result.v.v.cwd = lineSummary.cwd
    /\ last.result.v.v.updated_at = Some(T2024b)

====
